---- MODULE Spec2Model ----
(***************************************************************************)
(* defaultFetchVariablesStrategy: the recursive "variables" fetch of a     *)
(* debug session.  One call resolves the handles of ctx.refsToFetch in     *)
(* order, publishes every resolved node to the session store and recurses  *)
(* into the children that pass the filter, up to maxDepth.                 *)
(*                                                                         *)
(* The function is async: it runs without interruption from one await to   *)
(* the next.  Each action below is one such run: from the call, or from    *)
(* the settlement of the awaited promise, to the next await or the return. *)
(***************************************************************************)
EXTENDS Integers, Sequences, FiniteSets, TLC

\* ------------------------------------------------------------- bounds ----
\* longest refsToFetch of a top-level call
MaxRefs == 2
\* largest maxDepth of a top-level call
MaxDepthBound == 2

\* the non-zero variablesReference numbers the adapter hands out
Handles == {1, 2, 3}
\* the top-level calls; Spec starts the first one only
Calls == {1, 2}
Sessions == {"s1", "s2"}
\* the session the callers fetch for; the other one is a bystander
CallSessions == {"s1"}

\* sequences over S of length at most n
SeqUpTo(S, n) == UNION {[1..k -> S] : k \in 0..n}

Min(S) == CHOOSE x \in S : \A y \in S : x <= y

\* the last element's index removed
Front(s) == SubSeq(s, 1, Len(s) - 1)

\* ---------------------------------------------------- entities, store ----
\* An entity id is a number or a string (EntityId); the two never compare
\* equal under Array.prototype.includes, which the tag keeps.
IdNum(n) == [num |-> n, str |-> ""]
IdStr(s) == [num |-> 0, str |-> s]

\* DP.Variable, the fields the strategy reads
Var(name, value, ref, lazy) ==
    [name |-> name, value |-> value, variablesReference |-> ref, lazy |-> lazy]

\* the entity built from a request's arguments and its response; by default
\* its id is the variablesReference number
toVariablesEntity(args, variables) ==
    [id |-> IdNum(args.variablesReference),
     variablesReference |-> args.variablesReference,
     variables |-> variables]

\* the `variable` of a top-level context: undefined
NoVariable == [id |-> IdNum(0), variablesReference |-> 0, variables |-> <<>>]

\* the session state of a session id
selectSessionState(state, sessionId) == state[sessionId]

\* the variablesReferences of the entities of the session
selectReferences(variables) == variables.refs

\* the store after the dispatch of addVariables(sessionId, payload)
addVariables(state, sessionId, payload) ==
    LET old == state[sessionId].variables
        new == {payload.variables[k] : k \in 1..Len(payload.variables)}
    IN  [state EXCEPT ![sessionId].variables =
            [ids  |-> old.ids \cup {e.id : e \in new},
             refs |-> old.refs \cup {e.variablesReference : e \in new}]]

EmptySession == [variables |-> [ids |-> {}, refs |-> {}]]

\* --------------------------------------------------- adapter responses ----
Plain(ref)     == Var("arr", "[1,2]", ref, FALSE)
Prim           == Var("x", "5", 0, FALSE)
Lazy(ref)      == Var("getter", "[1,2]", ref, TRUE)
Known(ref)     == Var("s", "String@8", ref, FALSE)
LazyKnown(ref) == Var("t", "String@8", ref, TRUE)

\* the reference graphs the adapter may serve: handle -> its variables
Graphs ==
    { <<  <<>>,                      <<>>,                     <<>> >>,
      <<  <<Prim, Plain(2)>>,        <<Prim>>,                 <<Plain(3)>> >>,
      <<  <<Plain(2)>>,              <<Plain(3)>>,             <<Plain(1)>> >>,
      <<  <<Plain(2)>>,              <<Plain(1)>>,             <<Plain(3)>> >>,
      <<  <<Plain(2), Plain(2)>>,    <<Plain(3), Plain(3)>>,   <<>> >>,
      <<  <<Plain(3)>>,              <<Plain(3)>>,             <<Plain(1), Plain(2)>> >>,
      <<  <<Plain(2), Plain(3)>>,    <<Plain(3)>>,             <<Plain(2)>> >>,
      <<  <<Lazy(2), Plain(3)>>,     <<Lazy(3)>>,              <<Lazy(2)>> >>,
      <<  <<Known(2), Plain(3)>>,    <<Known(3)>>,             <<Plain(2)>> >>,
      <<  <<LazyKnown(2), Lazy(3)>>, <<Known(3), Lazy(0)>>,    <<Known(0), Plain(1)>> >> }

\* the session states a call may find: some handles fetched before, and
\* possibly an entity whose id is the string "String@8"
Stores ==
    { [variables |-> [ids  |-> {IdNum(h) : h \in R} \cup {IdStr(s) : s \in K},
                      refs |-> R]] :
        R \in SUBSET Handles, K \in SUBSET {"String@8"} }

VARIABLES
    adapter,     \* handle -> the variables the adapter answers with
    store,       \* session id -> session state (api.getState())
    dispatched,  \* the addVariables actions dispatched so far
    requests,    \* the "variables" requests issued so far
    top,         \* call -> the arguments of the top-level call, and the store it started from
    stack,       \* call -> the invocations in progress, innermost last
    pc,          \* call -> where the call stands
    ret,         \* call -> the list a returned invocation hands to its caller
    result,      \* call -> the list the top-level call returned
    thrown       \* call -> the request whose failure is propagating

vars == <<adapter, store, dispatched, requests, top, stack, pc, ret, result, thrown>>

\* ------------------------------------------------------- the function ----
\* the loop head: the first position from `from` on whose ref is not
\* skipped, 0 when the loop is over
\* (variant: the loop without the test for zero)
NextRefNoSkip(refsToFetch, from) ==
    IF from <= Len(refsToFetch) THEN from ELSE 0

\* the loop as written
NextRef(refsToFetch, from) ==
    LET left == {j \in from..Len(refsToFetch) : refsToFetch[j] # 0}
    IN  IF left = {} THEN 0 ELSE Min(left)

\* the filter's predicate on one child variable
\* (variant: force ignored)
EligibleLazyNever(var, refsFetched, force, ids) ==
    /\ var.variablesReference > 0
    /\ var.variablesReference \notin refsFetched
    /\ ~var.lazy
    /\ IdStr(var.value) \notin ids

\* (variant: no test of the value against the ids)
EligibleAnyValue(var, refsFetched, force, ids) ==
    /\ var.variablesReference > 0
    /\ var.variablesReference \notin refsFetched
    /\ (force \/ ~var.lazy)

\* the predicate as written
Eligible(var, refsFetched, force, ids) ==
    /\ var.variablesReference > 0
    /\ var.variablesReference \notin refsFetched
    /\ (force \/ ~var.lazy)
    /\ IdStr(var.value) \notin ids

\* the refs of the child variables that pass the filter, in their order
childRefsToFetch(varEntity, refsFetched, force, ids) ==
    LET kept == SelectSeq(varEntity.variables,
                          LAMBDA var : Eligible(var, refsFetched, force, ids))
    IN  [k \in 1..Len(kept) |-> kept[k].variablesReference]

\* refsFetched.push(ref)
\* (variant: the push left out)
pushRefNot(refsFetched, ref) == refsFetched

pushRef(refsFetched, ref) == refsFetched \cup {ref}

\* the depth cutoff
\* (variant: > for >=)
depthReachedLate(currentDepth, maxDepth) == currentDepth > maxDepth

\* (variant: no cutoff)
depthReachedNever(currentDepth, maxDepth) == FALSE

depthReached(currentDepth, maxDepth) == currentDepth >= maxDepth

\* api.dispatch(addVariables(ctx.sessionId, { variables: [varEntity] }))
\* (variant: the dispatch left out)
dispatchNothing(state, sessionId, varEntity) == state

dispatch(state, sessionId, varEntity) ==
    addVariables(state, sessionId, [variables |-> <<varEntity>>])

\* the context of the recursive call
\* (variant: the context built anew, the caller's session id not carried over)
childContextArgsAnew(ctx, childRefs, varEntity) ==
    [sessionId   |-> CHOOSE sid \in Sessions : sid # ctx.sessionId,
     refsToFetch |-> childRefs,
     variable    |-> varEntity,
     force       |-> ctx.force]

\* as written: { ...ctx, refsToFetch: childRefsToFetch, variable: varEntity }
childContextArgs(ctx, childRefs, varEntity) ==
    [ctx EXCEPT !.refsToFetch = childRefs, !.variable = varEntity]

\* variables.push(...childVars)
\* (variant: the children put in front)
pushAllFirst(variables, childVars) == childVars \o variables

\* (variant: the children's list not appended)
pushAllDropped(variables, childVars) == variables

pushAll(variables, childVars) == variables \o childVars

\* An invocation at its start: the empty result list, the session state read
\* from the store, the references already fetched, the loop at its first
\* position.  `parent` is the request that resolved ctx.variable (0 at the
\* top level).
\* (variant: refsFetched starts empty instead of being read from the store)
EnterUnread(ctx, state, maxDepth, currentDepth, parent) ==
    LET session == selectSessionState(state, ctx.sessionId)
    IN  [ctx          |-> ctx,
         maxDepth     |-> maxDepth,
         currentDepth |-> currentDepth,
         variables    |-> <<>>,
         session      |-> session,
         refsFetched  |-> {},
         i            |-> 1,
         parent       |-> parent]

\* (variant: the result list starts with the node the context carries)
EnterSeeded(ctx, state, maxDepth, currentDepth, parent) ==
    LET session == selectSessionState(state, ctx.sessionId)
    IN  [ctx          |-> ctx,
         maxDepth     |-> maxDepth,
         currentDepth |-> currentDepth,
         variables    |-> <<ctx.variable>>,
         session      |-> session,
         refsFetched  |-> selectReferences(session.variables),
         i            |-> 1,
         parent       |-> parent]

\* as written: const variables = []
Enter(ctx, state, maxDepth, currentDepth, parent) ==
    LET session == selectSessionState(state, ctx.sessionId)
    IN  [ctx          |-> ctx,
         maxDepth     |-> maxDepth,
         currentDepth |-> currentDepth,
         variables    |-> <<>>,
         session      |-> session,
         refsFetched  |-> selectReferences(session.variables),
         i            |-> 1,
         parent       |-> parent]

\* the request an invocation issues for the ref at position j of its loop
Request(p, f, j, state) ==
    [call       |-> p,
     sessionId  |-> f.ctx.sessionId,
     command    |-> "variables",
     args       |-> [variablesReference |-> f.ctx.refsToFetch[j]],
     depth      |-> f.currentDepth,
     parent     |-> f.parent,
     known      |-> f.ctx.refsToFetch[j] \in
                        selectReferences(selectSessionState(state, f.ctx.sessionId).variables),
     status     |-> "pending",
     expanded   |-> FALSE,
     childRefs  |-> <<>>]

\* the request of call p that has no response yet
Pending(p) ==
    CHOOSE k \in 1..Len(requests) : requests[k].call = p /\ requests[k].status = "pending"

NoResult == <<"none">>

\* Call p runs on from the loop head of its innermost invocation (the last
\* of stk, its loop at position i) to the next await or to the return:
\* the next request is issued, or the invocation returns its list, to the
\* caller of the top-level call or to the invocation awaiting it.
Proceed(p, stk, state, reqs) ==
    LET f == stk[Len(stk)]
        j == NextRef(f.ctx.refsToFetch, f.i)
    IN  IF j # 0
        THEN /\ stack' = [stack EXCEPT ![p] = [stk EXCEPT ![Len(stk)].i = j]]
             /\ requests' = Append(reqs, Request(p, f, j, state))
             /\ pc' = [pc EXCEPT ![p] = "awaitResp"]
             /\ ret' = [ret EXCEPT ![p] = <<>>]
             /\ UNCHANGED result
        ELSE IF Len(stk) = 1
        THEN /\ stack' = [stack EXCEPT ![p] = <<>>]
             /\ requests' = reqs
             /\ pc' = [pc EXCEPT ![p] = "returned"]
             /\ ret' = [ret EXCEPT ![p] = <<>>]
             /\ result' = [result EXCEPT ![p] = f.variables]
        ELSE /\ stack' = [stack EXCEPT ![p] = Front(stk)]
             /\ requests' = reqs
             /\ pc' = [pc EXCEPT ![p] = "awaitChild"]
             /\ ret' = [ret EXCEPT ![p] = f.variables]
             /\ UNCHANGED result

\* ------------------------------------------------------------ actions ----
\* A caller starts the top-level call: defaultFetchVariablesStrategy(ctx,
\* api, maxDepth) with currentDepth at its default 0.
Call(p) ==
    /\ pc[p] = "ready"
    /\ \E sessionId \in CallSessions, refsToFetch \in SeqUpTo({0} \cup Handles, MaxRefs),
          force \in BOOLEAN, maxDepth \in 0..MaxDepthBound :
            LET ctx == [sessionId   |-> sessionId,
                        refsToFetch |-> refsToFetch,
                        variable    |-> NoVariable,
                        force       |-> force]
            IN  /\ top' = [top EXCEPT ![p] =
                        [ctx |-> ctx, maxDepth |-> maxDepth, start |-> store]]
                /\ Proceed(p, <<Enter(ctx, store, maxDepth, 0, 0)>>, store, requests)
    /\ UNCHANGED <<adapter, store, dispatched, thrown>>

\* The adapter answers the outstanding request of call p: the ref is marked,
\* the entity built, published and appended; the children are filtered and
\* the recursive call entered, unless the depth is reached.
Respond(p) ==
    /\ pc[p] = "awaitResp"
    /\ LET stk       == stack[p]
           f         == stk[Len(stk)]
           k         == Pending(p)
           args      == requests[k].args
           ref       == args.variablesReference
           resp      == [body |-> [variables |-> IF ref \in DOMAIN adapter
                                                 THEN adapter[ref] ELSE <<>>]]
           fetched   == pushRef(f.refsFetched, ref)
           varEntity == toVariablesEntity(args, resp.body.variables)
           state     == dispatch(store, f.ctx.sessionId, varEntity)
           f1        == [f EXCEPT !.refsFetched = fetched,
                                  !.variables = Append(f.variables, varEntity)]
           childRefs == childRefsToFetch(varEntity, fetched, f.ctx.force,
                                         f.session.variables.ids)
           child     == Enter(childContextArgs(f.ctx, childRefs, varEntity), state,
                              f.maxDepth, f.currentDepth + 1, k)
       IN  /\ store' = state
           /\ dispatched' = Append(dispatched,
                  [call |-> p, sessionId |-> f.ctx.sessionId, variables |-> <<varEntity>>])
           /\ IF depthReached(f.currentDepth, f.maxDepth)
              THEN Proceed(p, [stk EXCEPT ![Len(stk)] = [f1 EXCEPT !.i = f.i + 1]], state,
                           [requests EXCEPT ![k].status = "ok"])
              ELSE Proceed(p, Append([stk EXCEPT ![Len(stk)] = f1], child), state,
                           [requests EXCEPT ![k].status = "ok", ![k].expanded = TRUE,
                                            ![k].childRefs = childRefs])
    /\ UNCHANGED <<adapter, top, thrown>>

\* The recursive call has returned: its list is appended and the loop goes on.
\* (variant: the recursive call not awaited, so that the loop may go on to
\* the next sibling while a request of the recursive call is outstanding)
ResumeUnawaited(p) ==
    \/ /\ pc[p] = "awaitChild"
       /\ LET stk == stack[p]
              f   == stk[Len(stk)]
              f1  == [f EXCEPT !.variables = pushAll(f.variables, ret[p]), !.i = f.i + 1]
          IN  Proceed(p, [stk EXCEPT ![Len(stk)] = f1], store, requests)
       /\ UNCHANGED <<adapter, store, dispatched, top, thrown>>
    \/ /\ pc[p] = "awaitResp"
       /\ Len(stack[p]) > 1
       /\ LET stk == stack[p]
              f   == stk[Len(stk) - 1]
              j   == NextRef(f.ctx.refsToFetch, f.i + 1)
          IN  /\ j # 0
              /\ requests' = Append(requests, Request(p, f, j, store))
              /\ stack' = [stack EXCEPT ![p] = [stk EXCEPT ![Len(stk) - 1].i = j]]
       /\ UNCHANGED <<adapter, store, dispatched, top, pc, ret, result, thrown>>

\* the await as written
Resume(p) ==
    /\ pc[p] = "awaitChild"
    /\ LET stk == stack[p]
           f   == stk[Len(stk)]
           f1  == [f EXCEPT !.variables = pushAll(f.variables, ret[p]), !.i = f.i + 1]
       IN  Proceed(p, [stk EXCEPT ![Len(stk)] = f1], store, requests)
    /\ UNCHANGED <<adapter, store, dispatched, top, thrown>>

\* The outstanding request of call p fails: the await throws, and the
\* invocation that issued it ends with that error.
\* (variant: the node marked published before the await)
FailAfterPublish(p) ==
    /\ pc[p] = "awaitResp"
    /\ LET k == Pending(p)
           f == stack[p][Len(stack[p])]
       IN  /\ requests' = [requests EXCEPT ![k].status = "failed"]
           /\ thrown' = [thrown EXCEPT ![p] = k]
           /\ store' = dispatch(store, f.ctx.sessionId,
                                toVariablesEntity(requests[k].args, <<>>))
    /\ stack' = [stack EXCEPT ![p] = Front(stack[p])]
    /\ pc' = [pc EXCEPT ![p] = IF Len(stack[p]) = 1 THEN "failed" ELSE "throwing"]
    /\ UNCHANGED <<adapter, dispatched, top, ret, result>>

\* the failure as written
Fail(p) ==
    /\ pc[p] = "awaitResp"
    /\ LET k == Pending(p)
       IN  /\ requests' = [requests EXCEPT ![k].status = "failed"]
           /\ thrown' = [thrown EXCEPT ![p] = k]
    /\ stack' = [stack EXCEPT ![p] = Front(stack[p])]
    /\ pc' = [pc EXCEPT ![p] = IF Len(stack[p]) = 1 THEN "failed" ELSE "throwing"]
    /\ UNCHANGED <<adapter, store, dispatched, top, ret, result>>

\* The invocation awaiting the recursive call gets its error: this await
\* throws too, and the invocation ends with the same error.
\* (variant: the error caught and the loop resumed with the next sibling)
PropagateCaught(p) ==
    /\ pc[p] = "throwing"
    /\ LET stk == stack[p]
           f   == stk[Len(stk)]
       IN  Proceed(p, [stk EXCEPT ![Len(stk)].i = f.i + 1], store, requests)
    /\ UNCHANGED <<adapter, store, dispatched, top, thrown>>

\* the rethrow as written
Propagate(p) ==
    /\ pc[p] = "throwing"
    /\ stack' = [stack EXCEPT ![p] = Front(stack[p])]
    /\ pc' = [pc EXCEPT ![p] = IF Len(stack[p]) = 1 THEN "failed" ELSE "throwing"]
    /\ UNCHANGED <<adapter, store, dispatched, requests, top, ret, result, thrown>>

NoTop ==
    [ctx |-> [sessionId |-> "s1", refsToFetch |-> <<>>, variable |-> NoVariable,
              force |-> FALSE],
     maxDepth |-> 0,
     start |-> [sid \in Sessions |-> EmptySession]]

\* what the calls share at the start, whichever of them run
InitCommon ==
    /\ adapter \in Graphs
    /\ \E s \in Stores : store = [sid \in Sessions |-> IF sid = "s1" THEN s ELSE EmptySession]
    /\ dispatched = <<>>
    /\ requests = <<>>
    /\ top = [p \in Calls |-> NoTop]
    /\ stack = [p \in Calls |-> <<>>]
    /\ ret = [p \in Calls |-> <<>>]
    /\ result = [p \in Calls |-> NoResult]
    /\ thrown = [p \in Calls |-> 0]

\* one top-level call, run alone
Init ==
    /\ InitCommon
    /\ pc = [p \in Calls |-> IF p = 1 THEN "ready" ELSE "off"]

Next ==
    \E p \in Calls :
        \/ Call(p)
        \/ Respond(p)
        \/ Resume(p)
        \/ Fail(p)
        \/ Propagate(p)

Spec == Init /\ [][Next]_vars

\* ------------------------------------------------- reading the history ----
Range(s) == {s[k] : k \in 1..Len(s)}

\* the variablesReferences of a list of entities or of variables
RefsOf(s) == [k \in 1..Len(s) |-> s[k].variablesReference]

NonZero(refs) == SelectSeq(refs, LAMBDA r : r # 0)

\* the requests of call p, in the order they were issued
ReqsOf(p) == SelectSeq(requests, LAMBDA r : r.call = p)

\* the refs of the requests of call p that succeeded, in that order
OkRefs(p) ==
    LET ok == SelectSeq(requests, LAMBDA r : r.call = p /\ r.status = "ok")
    IN  [k \in 1..Len(ok) |-> ok[k].args.variablesReference]

\* the addVariables actions call p dispatched, in order
DispOf(p) == SelectSeq(dispatched, LAMBDA d : d.call = p)

\* the refs call p requested for the children of the node of request q
\* (q = 0: for the top-level refsToFetch), in the order of the requests
RequestedUnder(p, q) ==
    LET under == SelectSeq(requests, LAMBDA r : r.call = p /\ r.parent = q)
    IN  [k \in 1..Len(under) |-> under[k].args.variablesReference]

\* ------------------------------------------------------------- claims ----

\* C1: no request is ever issued with variablesReference 0, no node for 0 is
\* published, collected or returned, and no recursive invocation is handed
\* a 0: zero entries are skipped and zero children never pass the filter.
C1_NoZeroHandle ==
    /\ \A k \in 1..Len(requests) : requests[k].args.variablesReference # 0
    /\ \A k \in 1..Len(dispatched) : 0 \notin Range(RefsOf(dispatched[k].variables))
    /\ \A sid \in Sessions : 0 \notin store[sid].variables.refs
    /\ \A p \in Calls :
        /\ 0 \notin Range(RefsOf(ret[p]))
        /\ pc[p] = "returned" => 0 \notin Range(RefsOf(result[p]))
        /\ \A k \in 1..Len(stack[p]) :
            /\ 0 \notin Range(RefsOf(stack[p][k].variables))
            /\ k > 1 => 0 \notin Range(stack[p][k].ctx.refsToFetch)

\* a call whose refsToFetch held a 0 beside a real handle has returned, and a
\* node it expanded had a child with reference 0
C1_Witness ==
    /\ pc[1] = "returned"
    /\ 0 \in Range(top[1].ctx.refsToFetch)
    /\ result[1] # <<>>
    /\ \E k \in 1..Len(requests) :
        /\ requests[k].expanded
        /\ 0 \in Range(RefsOf(adapter[requests[k].args.variablesReference]))

\* C2: no request is issued for a handle that is in the session's
\* refsFetched at that moment, and no handle is requested twice in a call.
C2_NoRefetch ==
    /\ \A k \in 1..Len(requests) : ~requests[k].known
    /\ \A j, k \in 1..Len(requests) :
        (j < k /\ requests[j].call = requests[k].call)
            => requests[j].args.variablesReference # requests[k].args.variablesReference

\* C3: every request is issued by an invocation whose currentDepth is at
\* most maxDepth, recursion passes maxDepth on and adds one to currentDepth,
\* a node at the bound is published and collected while none of its children
\* is requested, and maxDepth 0 returns one node per non-zero handle given.
C3_DepthBound ==
    \A p \in Calls :
        /\ \A k \in 1..Len(stack[p]) :
            /\ stack[p][k].maxDepth = top[p].maxDepth
            /\ stack[p][k].currentDepth = k - 1
        /\ \A k \in 1..Len(requests) :
            requests[k].call = p =>
                /\ requests[k].depth <= top[p].maxDepth
                /\ requests[k].parent = 0 => requests[k].depth = 0
                /\ requests[k].parent # 0 =>
                    /\ requests[k].depth = requests[requests[k].parent].depth + 1
                    /\ requests[requests[k].parent].depth < top[p].maxDepth
                /\ (requests[k].status = "ok" /\ requests[k].depth = top[p].maxDepth) =>
                    /\ ~requests[k].expanded
                    /\ requests[k].args.variablesReference
                            \in store[requests[k].sessionId].variables.refs
        /\ (pc[p] = "returned" /\ top[p].maxDepth = 0) =>
            /\ RefsOf(result[p]) = NonZero(top[p].ctx.refsToFetch)
            /\ RefsOf(result[p]) = OkRefs(p)
            /\ Len(ReqsOf(p)) = Len(result[p])

\* a call with maxDepth 0 has returned a node that has a child with a handle
\* that was never fetched
C3_Witness ==
    /\ pc[1] = "returned"
    /\ top[1].maxDepth = 0
    /\ \E j \in 1..Len(result[1]) : \E c \in Range(RefsOf(result[1][j].variables)) :
        c # 0 /\ c \notin store["s1"].variables.refs

\* C4: a returned list holds one node per successful request, in the order
\* of the requests, and that order is depth-first pre-order, left to right:
\* between a node and any of its children lie only deeper nodes, the
\* children of a node are requested in the order of its eligible children
\* and the top-level handles in the order given.
C4_PreOrder ==
    \A p \in Calls :
        /\ \A k \in 1..Len(requests) :
            (requests[k].call = p /\ requests[k].parent # 0) =>
                LET q == requests[k].parent
                IN  /\ q < k
                    /\ requests[q].call = p
                    /\ requests[q].status = "ok"
                    /\ requests[k].depth = requests[q].depth + 1
                    /\ \A m \in (q + 1)..(k - 1) :
                        requests[m].call = p => requests[m].depth > requests[q].depth
        /\ pc[p] = "returned" =>
            /\ Len(result[p]) = Len(ReqsOf(p))
            /\ \A i \in 1..Len(ReqsOf(p)) :
                /\ ReqsOf(p)[i].status = "ok"
                /\ result[p][i] =
                        toVariablesEntity(ReqsOf(p)[i].args,
                                          adapter[ReqsOf(p)[i].args.variablesReference])
            /\ RequestedUnder(p, 0) = NonZero(top[p].ctx.refsToFetch)
            /\ \A k \in 1..Len(requests) :
                requests[k].call = p =>
                    RequestedUnder(p, k) =
                        IF requests[k].expanded THEN requests[k].childRefs ELSE <<>>

\* refsToFetch = [A, B], A without eligible children, B with some: the call
\* has returned nodeA, nodeB and then B's descendants
C4_Witness ==
    /\ pc[1] = "returned"
    /\ Len(NonZero(top[1].ctx.refsToFetch)) = 2
    /\ Len(result[1]) >= 4
    /\ requests[1].expanded /\ requests[1].childRefs = <<>>
    /\ requests[2].parent = 0 /\ Len(requests[2].childRefs) = 2
    /\ requests[3].parent = 2 /\ requests[4].parent = 2

\* some request of call p has failed
HasFailed(p) ==
    \E k \in 1..Len(requests) : requests[k].call = p /\ requests[k].status = "failed"

\* C5: once a request of a call has failed, the call issues no further
\* request (the failed one is its last and is not retried), publishes no
\* further node, never returns a list, carries the same error outward and
\* stands either in an enclosing invocation that is about to rethrow or in
\* the failed state.
C5_FailureAborts ==
    [][\A p \in Calls : HasFailed(p)' =>
          /\ pc'[p] \in {"throwing", "failed"}
          /\ (pc'[p] = "throwing") = (stack'[p] # <<>>)
          /\ result'[p] = NoResult
          /\ ret'[p] = <<>>
          /\ DispOf(p)' = DispOf(p)
          /\ Len(ReqsOf(p)') = Len(ReqsOf(p))
          /\ ReqsOf(p)'[Len(ReqsOf(p)')].status = "failed"
          /\ thrown'[p] # 0
          /\ requests'[thrown'[p]].status = "failed"
          /\ HasFailed(p) => thrown'[p] = thrown[p]]_vars

\* a request failed two invocations below the top-level call, which has
\* ended failed with a handle of its refsToFetch never requested
C5_Witness ==
    /\ pc[1] = "failed"
    /\ requests[thrown[1]].depth = 2
    /\ Len(RequestedUnder(1, 0)) < Len(NonZero(top[1].ctx.refsToFetch))

\* C6: when a request fails, the store is left as it was before the
\* request: it holds what the call started from and the nodes of the
\* requests that succeeded, each published once, and nothing for the failed
\* request.
C6_FailureLeavesStore ==
    \A p \in Calls : HasFailed(p) =>
        LET sid == top[p].ctx.sessionId
            was == top[p].start[sid].variables
            ok  == Range(OkRefs(p))
        IN  /\ store[sid].variables.refs = was.refs \cup ok
            /\ store[sid].variables.ids = was.ids \cup {IdNum(h) : h \in ok}
            /\ \A other \in Sessions \ {sid} : store[other] = top[p].start[other]
            /\ Len(DispOf(p)) = Len(OkRefs(p))
            /\ \A k \in 1..Len(DispOf(p)) :
                RefsOf(DispOf(p)[k].variables) = <<OkRefs(p)[k]>>

\* refsToFetch = [1, 2] on a fresh store: 1 succeeded and is published, 2
\* failed and is not
C6_Witness ==
    /\ pc[1] = "failed"
    /\ top[1].ctx.refsToFetch = <<1, 2>>
    /\ top[1].start["s1"].variables.refs = {}
    /\ OkRefs(1) = <<1>>
    /\ requests[thrown[1]].args.variablesReference = 2
    /\ store["s1"].variables.refs = {1}
    /\ Len(dispatched) = 1

\* C7: every node whose request has succeeded is in the store, published by
\* a dispatch of its own, at every point of the call: while the request for
\* a child or for the next sibling is outstanding, and already when the
\* recursive invocation reads the store at its start.
C7_PublishedFirst ==
    \A p \in Calls :
        /\ Len(DispOf(p)) = Len(OkRefs(p))
        /\ \A k \in 1..Len(DispOf(p)) :
            /\ DispOf(p)[k].sessionId = top[p].ctx.sessionId
            /\ RefsOf(DispOf(p)[k].variables) = <<OkRefs(p)[k]>>
        /\ \A h \in Range(OkRefs(p)) :
            /\ h \in store[top[p].ctx.sessionId].variables.refs
            /\ IdNum(h) \in store[top[p].ctx.sessionId].variables.ids
        /\ \A k \in 2..Len(stack[p]) :
            stack[p][k].ctx.variable.variablesReference
                \in selectReferences(stack[p][k].session.variables)

\* the request for a child is outstanding after the request for its parent
\* and for an earlier sibling of the parent have succeeded
C7_Witness ==
    /\ pc[1] = "awaitResp"
    /\ requests[Pending(1)].parent # 0
    /\ \E k \in 1..Len(requests) :
        requests[k].parent = 0 /\ k # requests[Pending(1)].parent

\* how often x occurs in the list s
Count(s, x) == Cardinality({k \in 1..Len(s) : s[k] = x})

IsPrefix(s, t) == Len(s) <= Len(t) /\ s = SubSeq(t, 1, Len(s))

\* The handles an invocation of call p holds in refsFetched when it filters
\* the children of the node of request k: those the store held when the
\* invocation started (what the call started from and every node requested
\* up to the one the invocation was entered for) and those of the requests
\* of its own loop so far, the one of k included.
Seen(p, k) ==
    top[p].start[top[p].ctx.sessionId].variables.refs
        \cup {requests[j].args.variablesReference :
                j \in {i \in 1..requests[k].parent : requests[i].call = p}}
        \cup {requests[j].args.variablesReference :
                j \in {i \in 1..k : requests[i].call = p
                                      /\ requests[i].parent = requests[k].parent}}

\* the requests of call p whose node went through the filter
Expanded(p) == {k \in 1..Len(requests) : requests[k].call = p /\ requests[k].expanded}

\* the variables of the node of request k
VariablesOf(k) == adapter[requests[k].args.variablesReference]

\* the recursive invocation is handed the filtered children of its node
RecursionGetsEligible(p) ==
    \A k \in 2..Len(stack[p]) :
        /\ stack[p][k].ctx.refsToFetch = requests[stack[p][k].parent].childRefs
        /\ stack[p][k].ctx.variable =
                toVariablesEntity(requests[stack[p][k].parent].args,
                                  VariablesOf(stack[p][k].parent))

\* the recursion asks for the filtered children and for nothing else
OnlyEligibleRequested(p) ==
    /\ \A k \in 1..Len(requests) :
        requests[k].call = p => IsPrefix(RequestedUnder(p, k), requests[k].childRefs)
    /\ RecursionGetsEligible(p)

\* C8: a child whose handle was in refsFetched as read when the invocation
\* started, or was resolved earlier in the invocation's own loop (the node's
\* own handle, an earlier sibling's handle), is not among the eligible
\* children and is not requested as a child of that node.
C8_FetchedChildExcluded ==
    \A p \in Calls :
        /\ OnlyEligibleRequested(p)
        /\ \A k \in Expanded(p) : Range(requests[k].childRefs) \cap Seen(p, k) = {}
        /\ \A k \in 2..Len(stack[p]) :
            LET parent == stack[p][k - 1]
            IN  Range(stack[p][k].ctx.refsToFetch)
                    \cap (selectReferences(parent.session.variables)
                            \cup {parent.ctx.refsToFetch[j] : j \in 1..parent.i}) = {}

\* a node was filtered that has a child carrying the handle of an earlier
\* sibling, resolved in the same loop and unknown to the store before, and
\* a child carrying a handle the store held when the call started
C8_Witness ==
    \E k \in Expanded(1) :
        /\ \E j \in 1..(k - 1) :
            /\ requests[j].parent = requests[k].parent
            /\ requests[j].args.variablesReference # requests[k].args.variablesReference
            /\ requests[j].args.variablesReference \in Range(RefsOf(VariablesOf(k)))
            /\ requests[j].args.variablesReference \notin top[1].start["s1"].variables.refs
        /\ \E c \in Range(RefsOf(VariablesOf(k))) : c \in top[1].start["s1"].variables.refs
        /\ requests[k].childRefs = <<>>

\* C9: the eligible children of a node are its children that pass the other
\* filters and, when force is falsy, are not lazy; when force is true the
\* lazy hint decides nothing.  The force flag of the top-level context is
\* the one of every recursive invocation.
C9_LazyUnlessForced ==
    \A p \in Calls :
        LET force == top[p].ctx.force
            ids   == top[p].start[top[p].ctx.sessionId].variables.ids
        IN  /\ RecursionGetsEligible(p)
            /\ \A k \in 1..Len(stack[p]) : stack[p][k].ctx.force = force
            /\ \A k \in Expanded(p) :
                /\ requests[k].childRefs =
                        RefsOf(SelectSeq(VariablesOf(k),
                            LAMBDA v : /\ (force \/ ~v.lazy)
                                       /\ v.variablesReference > 0
                                       /\ v.variablesReference \notin Seen(p, k)
                                       /\ IdStr(v.value) \notin ids))
                /\ ~force =>
                    \A c \in Range(requests[k].childRefs) :
                        Count(requests[k].childRefs, c) <=
                            Count(RefsOf(SelectSeq(VariablesOf(k), LAMBDA v : ~v.lazy)), c)

\* without force, a node one level down was filtered that has a lazy child
\* with a fresh non-zero handle and an unknown value: the child was left out
C9_Witness ==
    /\ ~top[1].ctx.force
    /\ \E k \in Expanded(1) :
        /\ requests[k].depth = 1
        /\ \E j \in 1..Len(VariablesOf(k)) :
            LET v == VariablesOf(k)[j]
            IN  /\ v.lazy
                /\ v.variablesReference > 0
                /\ v.variablesReference \notin Seen(1, k)
                /\ IdStr(v.value) \notin store["s1"].variables.ids
                /\ v.variablesReference \notin Range(requests[k].childRefs)

\* C10: a child whose value is among the ids of the session is not among
\* the eligible children: every eligible handle is carried by a child whose
\* value is not an id, as often as it is eligible.
C10_KnownValueExcluded ==
    \A p \in Calls :
        LET ids == store[top[p].ctx.sessionId].variables.ids
        IN  /\ RecursionGetsEligible(p)
            /\ \A k \in Expanded(p) : \A c \in Range(requests[k].childRefs) :
                Count(requests[k].childRefs, c) <=
                    Count(RefsOf(SelectSeq(VariablesOf(k),
                                           LAMBDA v : IdStr(v.value) \notin ids)), c)
            /\ \A k \in 2..Len(stack[p]) :
                \A c \in Range(stack[p][k].ctx.refsToFetch) :
                    \E j \in 1..Len(stack[p][k].ctx.variable.variables) :
                        LET v == stack[p][k].ctx.variable.variables[j]
                        IN  v.variablesReference = c /\ IdStr(v.value) \notin ids

\* with force, a call has returned that filtered a node with a child that is
\* not lazy, has a non-zero handle never fetched, and a value among the ids
C10_Witness ==
    /\ pc[1] = "returned"
    /\ top[1].ctx.force
    /\ \E k \in Expanded(1) : \E j \in 1..Len(VariablesOf(k)) :
        LET v == VariablesOf(k)[j]
        IN  /\ IdStr(v.value) \in store["s1"].variables.ids
            /\ ~v.lazy
            /\ v.variablesReference > 0
            /\ v.variablesReference \notin store["s1"].variables.refs
            /\ v.variablesReference \notin Range(requests[k].childRefs)

\* the requests of call p that have no response yet
Outstanding(p) ==
    {k \in 1..Len(requests) : requests[k].call = p /\ requests[k].status = "pending"}

\* C11: a call has at most one request outstanding, issued by its innermost
\* invocation, and it is the latest request of the call; between the
\* requests for two sibling handles lies the whole subtree of the first,
\* every request of it answered before the second sibling is requested.
C11_OneAtATime ==
    \A p \in Calls :
        /\ Cardinality(Outstanding(p)) <= 1
        /\ (pc[p] = "awaitResp") = (Outstanding(p) # {})
        /\ \A k \in Outstanding(p) :
            /\ \A m \in (k + 1)..Len(requests) : requests[m].call # p
            /\ Len(stack[p]) = requests[k].depth + 1
            /\ LET f == stack[p][Len(stack[p])]
               IN  /\ f.parent = requests[k].parent
                   /\ f.ctx.refsToFetch[f.i] = requests[k].args.variablesReference
        /\ \A j, k \in 1..Len(requests) :
            (/\ j < k
             /\ requests[j].call = p /\ requests[k].call = p
             /\ requests[j].parent = requests[k].parent) =>
                /\ requests[j].status = "ok"
                /\ \A m \in (j + 1)..(k - 1) :
                    requests[m].call = p =>
                        /\ requests[m].status = "ok"
                        /\ \/ requests[m].depth > requests[j].depth
                           \/ requests[m].parent = requests[j].parent

\* the second of two top-level handles is being requested after the first
\* one's recursion went two levels down
C11_Witness ==
    /\ pc[1] = "awaitResp"
    /\ requests[Pending(1)].parent = 0
    /\ \E j, m \in 1..Len(requests) :
        /\ j < m /\ m < Pending(1)
        /\ requests[j].parent = 0
        /\ requests[m].depth = 2

\* the handles call p has resolved up to and including request k
ResolvedBy(p, k) ==
    {requests[j].args.variablesReference :
        j \in {i \in 1..k : requests[i].call = p /\ requests[i].status = "ok"}}

\* C12: whenever a node's children are filtered, no child that carries a
\* handle the same call has resolved before, at whatever depth and also
\* inside the subtree of an earlier sibling that has returned, is eligible.
C12_ResolvedVisible ==
    \A p \in Calls :
        \A k \in Expanded(p) :
            Range(requests[k].childRefs) \cap ResolvedBy(p, k) = {}

\* C13: when a call that ran alone returns, the session's refsFetched is
\* what it was when the call started together with the handles of the
\* returned nodes, and the other sessions are as they were.
C13_RefsFetchedOnReturn ==
    \A p \in Calls :
        pc[p] = "returned" =>
            LET sid == top[p].ctx.sessionId
            IN  /\ selectReferences(selectSessionState(store, sid).variables)
                        = selectReferences(selectSessionState(top[p].start, sid).variables)
                            \cup Range(RefsOf(result[p]))
                /\ \A s \in Sessions \ {sid} : store[s] = top[p].start[s]

\* empty store, refsToFetch = [1], node 1 has a child without handle and a
\* child with handle 2, node 2 has nothing to expand: nodes 1 and 2 are
\* returned and refsFetched is {1, 2}
C13_Witness ==
    /\ pc[1] = "returned"
    /\ top[1].ctx.refsToFetch = <<1>>
    /\ selectReferences(top[1].start["s1"].variables) = {}
    /\ RefsOf(adapter[1]) = <<0, 2>>
    /\ RefsOf(adapter[2]) = <<0>>
    /\ RefsOf(result[1]) = <<1, 2>>
    /\ selectReferences(store["s1"].variables) = {1, 2}

\* the latest request of call p (0 when it has issued none)
LastOf(p) ==
    LET mine == {k \in 1..Len(requests) : requests[k].call = p}
    IN  IF mine = {} THEN 0 ELSE CHOOSE k \in mine : \A m \in mine : m <= k

\* C17: an invocation whose refsToFetch is empty or holds only 0 issues no
\* request, publishes nothing, returns the empty list and leaves the store
\* as it is: at the top level nothing has happened when it returns, and the
\* recursion entered with no eligible child hands the empty list back with
\* no request under its node, so that the requests, the publishes and the
\* result are those of a recursion entered only for a non-empty list: one
\* node per request and nothing else.
C17_EmptyInvocationNoEffect ==
    \A p \in Calls :
        /\ (pc[p] = "returned" /\ NonZero(top[p].ctx.refsToFetch) = <<>>) =>
                /\ result[p] = <<>>
                /\ ReqsOf(p) = <<>>
                /\ DispOf(p) = <<>>
                /\ store = top[p].start
        /\ \A k \in Expanded(p) :
            requests[k].childRefs = <<>> =>
                /\ \A m \in 1..Len(requests) :
                    requests[m].call = p => requests[m].parent # k
                /\ (/\ pc[p] = "awaitChild"
                    /\ k = LastOf(p)
                    /\ Len(stack[p]) = requests[k].depth + 1) =>
                        /\ ret[p] = <<>>
                        /\ Len(DispOf(p)) = Len(ReqsOf(p))
                        /\ DispOf(p)[Len(DispOf(p))].variables
                                = <<toVariablesEntity(requests[k].args, VariablesOf(k))>>
        /\ pc[p] = "returned" =>
                /\ RefsOf(result[p]) = OkRefs(p)
                /\ Len(DispOf(p)) = Len(ReqsOf(p))
                /\ RequestedUnder(p, 0) = NonZero(top[p].ctx.refsToFetch)

\* in a call given a 0 entry among its handles, a recursion entered for a
\* node none of whose children is eligible has just handed back the empty
\* list
C17_Witness ==
    /\ pc[1] = "awaitChild"
    /\ ret[1] = <<>>
    /\ LastOf(1) # 0
    /\ requests[LastOf(1)].expanded
    /\ requests[LastOf(1)].childRefs = <<>>
    /\ VariablesOf(LastOf(1)) # <<>>
    /\ Len(stack[1]) = requests[LastOf(1)].depth + 1
    /\ 0 \in Range(top[1].ctx.refsToFetch)

\* C18: every request of a call carries the session id of the call's
\* context and asks for the variables of a handle that is a non-zero entry
\* of the refsToFetch the call was given, or the variablesReference of a
\* child of a node the same call has requested, received and published
\* before.
C18_OnlyGivenOrDiscovered ==
    \A k \in 1..Len(requests) :
        LET p == requests[k].call
            q == requests[k].parent
            h == requests[k].args.variablesReference
        IN  /\ requests[k].sessionId = top[p].ctx.sessionId
            /\ requests[k].command = "variables"
            /\ h # 0
            /\ q = 0 => h \in Range(top[p].ctx.refsToFetch)
            /\ q # 0 =>
                /\ q < k
                /\ requests[q].call = p
                /\ requests[q].status = "ok"
                /\ h \in Range(RefsOf(VariablesOf(q)))
                /\ \E d \in 1..Len(dispatched) :
                    /\ dispatched[d].call = p
                    /\ dispatched[d].sessionId = top[p].ctx.sessionId
                    /\ dispatched[d].variables
                            = <<toVariablesEntity(requests[q].args, VariablesOf(q))>>

\* a handle met two levels below the handles given is being requested, in a
\* call that was not given it
C18_Witness ==
    /\ pc[1] = "awaitResp"
    /\ requests[Pending(1)].depth = 2
    /\ requests[Pending(1)].args.variablesReference
            \notin Range(top[1].ctx.refsToFetch)
    /\ 0 \in Range(top[1].ctx.refsToFetch)

\* Every request gets its response or its error, and a continuation that
\* can run (after a recursive call has returned, after a rejection) is run.
Fairness ==
    \A p \in Calls :
        /\ WF_vars(Respond(p) \/ Fail(p))
        /\ WF_vars(Resume(p))
        /\ WF_vars(Propagate(p))

\* the reference graphs of the termination runs: a cycle through all the
\* handles; and a graph where 1 and 2 refer to each other, 3 refers to
\* itself and one value comes back under the new handles 2 and 3
LiveGraphs ==
    { << <<Plain(2)>>, <<Plain(3)>>,           <<Plain(1)>> >>,
      << <<Known(2)>>, <<Known(3), Plain(1)>>, <<Plain(3)>> >> }

\* one top-level call, run alone from an empty session
InitLive ==
    /\ Init
    /\ adapter \in LiveGraphs
    /\ store = [sid \in Sessions |-> EmptySession]

SpecFair == InitLive /\ [][Next]_vars /\ Fairness

RECURSIVE Geo(_, _)
\* 1 + c + ... + c^n
Geo(c, n) == IF n = 0 THEN 1 ELSE 1 + c * Geo(c, n - 1)

\* the longest list of variables the adapter answers with
MaxChildren ==
    LET lens == {Len(adapter[h]) : h \in Handles}
    IN  CHOOSE n \in lens : \A m \in lens : m <= n

\* the requests a call can issue at most: one per handle given and per
\* child down to maxDepth
Budget(p) ==
    Len(NonZero(top[p].ctx.refsToFetch)) * Geo(MaxChildren, top[p].maxDepth)

Running(p) == pc[p] \in {"awaitResp", "awaitChild", "throwing"}

Finished(p) == pc[p] \in {"returned", "failed"}

ConcRefsToFetch == {<<h>> : h \in Handles}

\* the reference graphs of the concurrent runs: a cycle through all the
\* handles, and two handles that share the child 3
ConcGraphs ==
    { << <<Plain(2)>>, <<Plain(3)>>, <<Plain(1)>> >>,
      << <<Plain(3)>>, <<Plain(3)>>, <<Prim>> >> }

\* (variant: a call that finds another call under way gives up at once)
ConcCallExclusive(p) ==
    /\ pc[p] = "ready"
    /\ \E sessionId \in CallSessions, refsToFetch \in ConcRefsToFetch,
          maxDepth \in 0..MaxDepthBound :
            LET ctx == [sessionId   |-> sessionId,
                        refsToFetch |-> IF \E q \in Calls : Running(q)
                                        THEN <<>> ELSE refsToFetch,
                        variable    |-> NoVariable,
                        force       |-> FALSE]
            IN  /\ top' = [top EXCEPT ![p] =
                        [ctx |-> [ctx EXCEPT !.refsToFetch = refsToFetch],
                         maxDepth |-> maxDepth, start |-> store]]
                /\ Proceed(p, <<Enter(ctx, store, maxDepth, 0, 0)>>, store, requests)
    /\ UNCHANGED <<adapter, store, dispatched, thrown>>

\* A top-level call is started, whatever the other call is doing: nothing
\* in the function looks at calls under way.
ConcCall(p) ==
    /\ pc[p] = "ready"
    /\ \E sessionId \in CallSessions, refsToFetch \in ConcRefsToFetch,
          maxDepth \in 0..MaxDepthBound :
            LET ctx == [sessionId   |-> sessionId,
                        refsToFetch |-> refsToFetch,
                        variable    |-> NoVariable,
                        force       |-> FALSE]
            IN  /\ top' = [top EXCEPT ![p] =
                        [ctx |-> ctx, maxDepth |-> maxDepth, start |-> store]]
                /\ Proceed(p, <<Enter(ctx, store, maxDepth, 0, 0)>>, store, requests)
    /\ UNCHANGED <<adapter, store, dispatched, thrown>>

InitConc ==
    /\ InitCommon
    /\ adapter \in ConcGraphs
    /\ store = [sid \in Sessions |-> EmptySession]
    /\ pc = [p \in Calls |-> "ready"]

NextConc ==
    \E p \in Calls :
        \/ ConcCall(p)
        \/ Respond(p)
        \/ Resume(p)
        \/ Fail(p)
        \/ Propagate(p)

SpecConc == InitConc /\ [][NextConc]_vars

\* the dispatches that published a node for handle h
PublishedFor(h) ==
    {d \in 1..Len(dispatched) : RefsOf(dispatched[d].variables) = <<h>>}

\* C14: two calls on one session do not exclude each other.  A call that
\* has started has requested the handle it was given, whatever the other
\* call has requested or published, judging by the refsFetched it read at
\* its own start; and every request that succeeded has published a node
\* of its own, so that a handle is published as often as it was fetched.
C14_NoMutualExclusion ==
    /\ \A p \in Calls :
        pc[p] # "ready" =>
            /\ RequestedUnder(p, 0) = top[p].ctx.refsToFetch
            /\ Len(DispOf(p)) = Len(OkRefs(p))
            /\ \A k \in 1..Len(DispOf(p)) :
                RefsOf(DispOf(p)[k].variables) = <<OkRefs(p)[k]>>
    /\ \A h \in Handles :
        Cardinality(PublishedFor(h))
            = Cardinality({k \in 1..Len(requests) :
                             /\ requests[k].args.variablesReference = h
                             /\ requests[k].status = "ok"})

\* both calls read a refsFetched without handle h, before either had
\* published anything, both requested h, and h was published twice
C14_Witness ==
    \E h \in Handles :
        /\ \A p \in Calls :
            /\ top[p].ctx.refsToFetch = <<h>>
            /\ top[p].start = [sid \in Sessions |-> EmptySession]
            /\ pc[p] = "returned"
        /\ \E d, e \in PublishedFor(h) :
            /\ dispatched[d].call = 1
            /\ dispatched[e].call = 2
        /\ requests[1].args.variablesReference = h
        /\ requests[2].args.variablesReference = h
        /\ requests[1].call # requests[2].call

\* the children of the node of request k that pass the filter, given the
\* handles and the ids the filter looks at
Passing(k, force, refs, ids) ==
    RefsOf(SelectSeq(VariablesOf(k),
        LAMBDA v : /\ v.variablesReference > 0
                   /\ v.variablesReference \notin refs
                   /\ (force \/ ~v.lazy)
                   /\ IdStr(v.value) \notin ids))

\* C15 as stated: every filtering of a call, at whatever depth, goes by the
\* refsFetched and the ids the store held when the top-level call started,
\* and the handles the call itself has marked; what another call has
\* published since decides nothing.
C15_TopLevelSnapshot ==
    \A p \in Calls :
        \A k \in Expanded(p) :
            requests[k].childRefs =
                Passing(k, top[p].ctx.force, Seen(p, k),
                        top[p].start[top[p].ctx.sessionId].variables.ids)

\* the request the invocation at level n of call p's stack is at: the
\* latest one issued at its depth
CurrentRequest(p, n) ==
    LET at == {k \in 1..Len(requests) :
                    requests[k].call = p /\ requests[k].depth = n - 1}
    IN  CHOOSE k \in at : \A m \in at : m <= k

\* C15 amended: every filtering goes by the session state its own
\* invocation read when it started, the top-level one at the start of the
\* call and a recursive one when it was entered, after its node was
\* published, and by the handles that invocation has pushed since; what
\* another call publishes after the invocation started decides nothing in
\* it, what was published before is in the state it read.
C15_InvocationSnapshot ==
    \A p \in Calls :
        \A n \in 1..Len(stack[p]) :
            LET f == stack[p][n]
            IN  /\ f.refsFetched \subseteq
                        selectReferences(f.session.variables)
                            \cup {f.ctx.refsToFetch[j] : j \in 1..Min({f.i, Len(f.ctx.refsToFetch)})}
                /\ selectReferences(f.session.variables) \subseteq f.refsFetched
                /\ n = 1 => f.session = selectSessionState(top[p].start, f.ctx.sessionId)
                /\ n > 1 =>
                    /\ selectReferences(stack[p][n - 1].session.variables)
                            \subseteq selectReferences(f.session.variables)
                    /\ f.ctx.variable.variablesReference
                            \in selectReferences(f.session.variables)
                /\ selectReferences(f.session.variables)
                        \subseteq selectReferences(selectSessionState(store, f.ctx.sessionId).variables)
                /\ (n < Len(stack[p]) \/ pc[p] = "awaitChild") =>
                    LET q == CurrentRequest(p, n)
                    IN  /\ requests[q].expanded
                        /\ requests[q].args.variablesReference \in f.refsFetched
                        /\ requests[q].childRefs =
                                Passing(q, f.ctx.force, f.refsFetched,
                                        f.session.variables.ids)

\* one level down, call 1 has filtered a node and left out a child whose
\* handle call 2 had published after call 1 had started; the store holds
\* this handle, the state read at the start of call 1 does not, and call 1
\* has not asked for it
C15_Witness ==
    /\ Len(stack[1]) = 2
    /\ pc[1] = "awaitChild"
    /\ LET q == CurrentRequest(1, 2)
           f == stack[1][2]
       IN  \E h \in Range(RefsOf(VariablesOf(q))) :
            /\ h \notin Range(requests[q].childRefs)
            /\ h \in selectReferences(f.session.variables)
            /\ h \notin selectReferences(top[1].start["s1"].variables)
            /\ \A k \in 1..Len(requests) :
                requests[k].args.variablesReference = h => requests[k].call = 2

====
